---- MODULE Spec2Model ----
(***************************************************************************)
(* Ball mill critical speed analyzer (BallMill_NC.py): the critical_speed  *)
(* formula and the matplotlib callbacks on_click, update and reset.        *)
(*                                                                         *)
(* Number representation.  The program computes in float64; the model      *)
(* computes in fixed point inside 32-bit integers:                         *)
(*   - a diameter in cm is an integer count of 1/UnitsPerCm cm; with       *)
(*     UnitsPerCm = 110 the slider steps (0.1 cm = 11 units) and the       *)
(*     points of linspace(5, 50, 100) (5 + 5k/11 cm = 550 + 50k units)     *)
(*     are both exact;                                                     *)
(*   - a length in metres is an integer count of 1/MetreScale m;           *)
(*   - a speed in RPM is an integer count of 1/1000 RPM, rounded down;     *)
(*     the relative error of critical_speed against float64 is < 3e-5.     *)
(* None is 0 where a handle is held; Failure is the outcome of an          *)
(* arithmetic fault (division by zero, square root of a negative).         *)
(*                                                                         *)
(* Library behaviour the callbacks rely on: Slider.set_val stores the      *)
(* value and then calls update; the slider calls set_val only for a value  *)
(* that differs from the current one, and Slider.reset only when the value *)
(* differs from valinit; Line2D.set_xdata accepts the scalar it is given;  *)
(* an artist object is truthy.                                             *)
(***************************************************************************)
EXTENDS Integers, Sequences, FiniteSets

VARIABLES
    slider_val,            \* ball_slider.val
    line_xdata,            \* line.get_xdata(): the plotted curve
    line_label,            \* line.get_label(): the ball diameter, one decimal
    ax_xlim,               \* upper x limit of ax
    seventy_percent_line,  \* x position of the 70% reference line
    ax_collections,        \* scatter artists on ax: id -> offsets
    ax_texts,              \* readout text artists on ax: id -> text
    click_result_text,     \* the instruction text box
    click_marker,          \* global click_marker: None or an artist id
    click_text,            \* global click_text: None or an artist id
    event,                 \* the GUI event dispatched last, and what it found
    fn_call,               \* a direct call of critical_speed: arguments, result
    fn_prev                \* the call before it

uiVars == <<slider_val, line_xdata, line_label, ax_xlim, seventy_percent_line,
            ax_collections, ax_texts, click_result_text, click_marker, click_text>>
fnVars == <<fn_call, fn_prev>>
vars == <<uiVars, event, fnVars>>

None == 0
Failure == 0 - 1

----------------------------------------------------------------------------
(* Units *)

UnitsPerCm == 10 * 11
MetreScale == UnitsPerCm * 100 * 2
RpmScale == 1000

\* num/den cm in length units
Cm(num, den) == (num * UnitsPerCm) \div den

----------------------------------------------------------------------------
(* Bounds of the model *)

\* a click in ax lands on one of NumClickRows + 1 evenly spaced y positions
NumClickRows == 3
\* direct calls take diameters k * FnSmallStep (k <= FnMaxSmall) and
\* k * FnLargeStep (k <= FnMaxLarge), each also one length unit larger
FnMaxSmall == 6
FnMaxLarge == 10

----------------------------------------------------------------------------
(* Arithmetic *)

g_x100 == 981
pi_num == 355
pi_den == 113
SqrtScale == 99
FracScale == 1000
IntSqrtStart == 46341

RECURSIVE IntSqrtFrom(_, _)
\* Newton's iteration for floor(sqrt(q)), from x >= sqrt(q)
IntSqrtFrom(q, x) ==
    LET y == (x + q \div x) \div 2
    IN  IF y >= x THEN x ELSE IntSqrtFrom(q, y)

IntSqrt(q) == IF q = 0 THEN 0 ELSE IntSqrtFrom(q, IntSqrtStart)

\* floor(y * num / den) without leaving 32 bits
MulDiv(y, num, den) == (y \div den) * num + ((y % den) * num) \div den

\* np.sqrt(g / diff_m) scaled by SqrtScale * FracScale, diff_m in 1/MetreScale m;
\* Failure where float arithmetic faults (diff_m = 0, or a negative quotient)
sqrt_g_over(diff_m) ==
    IF diff_m <= 0 THEN Failure
    ELSE LET K  == ((g_x100 * MetreScale) \div 100) * SqrtScale * SqrtScale
             q  == K \div diff_m
             r  == K % diff_m
             s0 == IntSqrt(q)
         IN  s0 * FracScale
               + ((q - s0 * s0) * FracScale + (r * FracScale) \div diff_m) \div (2 * s0)

RECURSIVE Gcd(_, _)
Gcd(a, b) == IF b = 0 THEN a ELSE Gcd(b, a % b)

\* variant: the speed rounded to a whole RPM
rps_to_rpm_whole(root) ==
    LET c == Gcd(60 * RpmScale * pi_den, 2 * pi_num * SqrtScale * FracScale)
        v == MulDiv(root, (60 * RpmScale * pi_den) \div c,
                    (2 * pi_num * SqrtScale * FracScale) \div c)
    IN  ((v + RpmScale \div 2) \div RpmScale) * RpmScale

\* (1 / (2 * np.pi)) * root * 60, in 1/RpmScale RPM: root * RpmNum / RpmDen
RpmNum == 60 * RpmScale * pi_den
RpmDen == 2 * pi_num * SqrtScale * FracScale
rps_to_rpm(root) ==
    LET c == Gcd(RpmNum, RpmDen)
    IN  MulDiv(root, RpmNum \div c, RpmDen \div c)

\* (diam_cm / 100) / 2, in 1/MetreScale m
radius_m(diam_cm) == ((diam_cm * MetreScale) \div (UnitsPerCm * 100)) \div 2

\* variant: the dimension check is strict, so equal radii reach the division
critical_speed_lt(ball_diam_cm, cylinder_diam_cm) ==
    LET ball_radius_m     == radius_m(ball_diam_cm)
        cylinder_radius_m == radius_m(cylinder_diam_cm)
        root              == sqrt_g_over(cylinder_radius_m - ball_radius_m)
    IN  IF cylinder_radius_m < ball_radius_m THEN 0
        ELSE IF root = Failure THEN Failure
        ELSE rps_to_rpm(root)

\* variant: the dimension check compares the cylinder's radius with the
\* ball's diameter
critical_speed_unhalved(ball_diam_cm, cylinder_diam_cm) ==
    LET ball_radius_m     == radius_m(ball_diam_cm)
        cylinder_radius_m == radius_m(cylinder_diam_cm)
        root              == sqrt_g_over(cylinder_radius_m - ball_radius_m)
    IN  IF cylinder_radius_m <= 2 * ball_radius_m THEN 0
        ELSE IF root = Failure THEN Failure
        ELSE rps_to_rpm(root)

\* variant: the formula is fed diameters where it wants radii
critical_speed_diam(ball_diam_cm, cylinder_diam_cm) ==
    LET ball_radius_m     == 2 * radius_m(ball_diam_cm)
        cylinder_radius_m == 2 * radius_m(cylinder_diam_cm)
        root              == sqrt_g_over(cylinder_radius_m - ball_radius_m)
    IN  IF cylinder_radius_m <= ball_radius_m THEN 0
        ELSE IF root = Failure THEN Failure
        ELSE rps_to_rpm(root)

critical_speed(ball_diam_cm, cylinder_diam_cm) ==
    LET ball_radius_m     == radius_m(ball_diam_cm)
        cylinder_radius_m == radius_m(cylinder_diam_cm)
        root              == sqrt_g_over(cylinder_radius_m - ball_radius_m)
    IN  IF cylinder_radius_m <= ball_radius_m THEN 0
        ELSE IF root = Failure THEN Failure
        ELSE rps_to_rpm(root)

\* cs * 0.7
seventy_percent_of(cs) == (cs * 7) \div 10

\* f"{x:.1f}" of a speed: tenths of RPM, rounded to nearest
fmt1_rpm(x) == (x + RpmScale \div 20) \div (RpmScale \div 10)
\* f"{x:.1f}" of a diameter: tenths of cm, rounded to nearest
fmt1_cm(x) == (2 * 10 * x + UnitsPerCm) \div (2 * UnitsPerCm)

----------------------------------------------------------------------------
(* Module-level objects *)

initial_ball_diam == Cm(15, 10)

\* np.linspace(start, stop, num), 1-indexed
linspace(start, stop, num) ==
    [k \in 1..num |-> start + ((k - 1) * (stop - start)) \div (num - 1)]

cylinder_diams == linspace(Cm(5, 1), Cm(50, 1), 100)

\* [critical_speed(ball_diam, d) for d in cylinder_diams]
critical_speeds_list(ball_diam) ==
    [k \in DOMAIN cylinder_diams |-> critical_speed(ball_diam, cylinder_diams[k])]

Max2(a, b) == IF a > b THEN a ELSE b
RECURSIVE MaxIn(_, _, _)
\* max(s[lo..hi]), by halves
MaxIn(s, lo, hi) ==
    IF lo = hi THEN s[lo]
    ELSE Max2(MaxIn(s, lo, (lo + hi) \div 2), MaxIn(s, (lo + hi) \div 2 + 1, hi))
\* max(speeds) * 1.1
xlim_for(speeds) == (MaxIn(speeds, 1, Len(speeds)) * 11) \div 10

valmin  == Cm(1, 10)
valmax  == Cm(5, 1)
valstep == Cm(1, 10)
valinit == initial_ball_diam
SliderVals == {valmin + k * valstep : k \in 0..((valmax - valmin) \div valstep)}

\* the curve of every slider value and its x limit, computed once
critical_speeds_table == [b \in SliderVals |-> critical_speeds_list(b)]
xlim_table == [b \in SliderVals |-> xlim_for(critical_speeds_table[b])]
\* new_critical_speeds of update, critical_speeds of the module
critical_speeds_for(ball_diam) == critical_speeds_table[ball_diam]
\* max(new_critical_speeds) * 1.1 for that list
xlim_of_curve(ball_diam) == xlim_table[ball_diam]

ylim_lo == Cm(5, 1)
ylim_hi == Cm(50, 1)

instruction_text == "Click on a cylinder diameter to see critical speed"

\* event.inaxes: one of the figure's axes, or "none" outside all of them
Axes == {"ax", "ax_info", "ax_ball", "ax_diagram", "resetax", "none"}

\* event.ydata of a click: inside ax a data coordinate between the y limits,
\* elsewhere of no concern to the chart (held as 0)
ClickYs(inaxes) ==
    IF inaxes = "ax"
    THEN {ylim_lo + (k * (ylim_hi - ylim_lo)) \div NumClickRows : k \in 0..NumClickRows}
    ELSE {0}

----------------------------------------------------------------------------
(* The chart's state as one value, and the artists on ax *)

Cur ==
    [slider_val |-> slider_val, line_xdata |-> line_xdata, line_label |-> line_label,
     ax_xlim |-> ax_xlim, seventy_percent_line |-> seventy_percent_line,
     ax_collections |-> ax_collections, ax_texts |-> ax_texts,
     click_result_text |-> click_result_text,
     click_marker |-> click_marker, click_text |-> click_text]

Becomes(s) ==
    /\ slider_val' = s.slider_val
    /\ line_xdata' = s.line_xdata
    /\ line_label' = s.line_label
    /\ ax_xlim' = s.ax_xlim
    /\ seventy_percent_line' = s.seventy_percent_line
    /\ ax_collections' = s.ax_collections
    /\ ax_texts' = s.ax_texts
    /\ click_result_text' = s.click_result_text
    /\ click_marker' = s.click_marker
    /\ click_text' = s.click_text

\* a new artist's identity
FreshId(arts) == CHOOSE i \in 1..(Cardinality(DOMAIN arts) + 1) : i \notin DOMAIN arts
\* ax.scatter(...) / ax.text(...): the artist joins the axes
AddArtist(arts, id, data) == [i \in DOMAIN arts \cup {id} |-> IF i = id THEN data ELSE arts[i]]
\* artist.remove(): the artist leaves the axes
RemoveArtist(arts, id) == [i \in DOMAIN arts \ {id} |-> arts[i]]

\* the four lines of the readout, each number as the f-string prints it
result_text(cylinder_diam, ball_diam, cs, seventy_percent) ==
    [cylinder |-> fmt1_cm(cylinder_diam), ball |-> fmt1_cm(ball_diam),
     cs |-> fmt1_rpm(cs), seventy |-> fmt1_rpm(seventy_percent)]

----------------------------------------------------------------------------
(* Callbacks *)

\* variant: the previous marker and readout stay on the chart
remove_previous_none(s) == s

\* lines 184-188: remove the previous marker and readout
remove_previous(s) ==
    [s EXCEPT
       !.ax_collections = IF s.click_marker # None
                          THEN RemoveArtist(@, s.click_marker) ELSE @,
       !.ax_texts = IF s.click_text # None
                    THEN RemoveArtist(@, s.click_text) ELSE @]

\* lines 190-203: add the new marker and readout, move the 70% line
add_marker(s, cylinder_diam, ball_diam, cs, seventy_percent) ==
    [s EXCEPT
       !.ax_collections = AddArtist(@, FreshId(@), [x |-> cs, y |-> cylinder_diam]),
       !.click_marker = FreshId(s.ax_collections),
       !.ax_texts = AddArtist(@, FreshId(@),
                       result_text(cylinder_diam, ball_diam, cs, seventy_percent)),
       !.click_text = FreshId(s.ax_texts),
       !.seventy_percent_line = seventy_percent]

on_click_at(s, cylinder_diam, ball_diam, cs) ==
    add_marker(remove_previous(s), cylinder_diam, ball_diam, cs, seventy_percent_of(cs))

\* variant: the axes under the mouse are not looked at
on_click_anywhere(s, inaxes, ydata) ==
    on_click_at(s, ydata, s.slider_val, critical_speed(s.slider_val, ydata))

on_click(s, inaxes, ydata) ==
    IF inaxes # "ax" THEN s
    ELSE on_click_at(s, ydata, s.slider_val, critical_speed(s.slider_val, ydata))

\* variant: the legend label changes, the curve does not
update_curve_label_only(s, ball_diam, new_critical_speeds) ==
    [s EXCEPT !.line_label = fmt1_cm(ball_diam)]

\* lines 212-217: recompute the curve for the slider's value
update_curve(s, ball_diam, new_critical_speeds) ==
    [s EXCEPT !.line_xdata = new_critical_speeds,
              !.line_label = fmt1_cm(ball_diam)]

\* lines 230-236: rewrite the readout, when there is one
update_text(s, ball_diam, cylinder_diam, cs, seventy_percent) ==
    IF s.click_text # None
    THEN [s EXCEPT !.ax_texts[s.click_text] =
            result_text(cylinder_diam, ball_diam, cs, seventy_percent)]
    ELSE s

\* lines 223-236: move the 70% line, the marker and the readout to cs
update_marker_to(s, ball_diam, cylinder_diam, cs) ==
    update_text(
        [s EXCEPT !.seventy_percent_line = seventy_percent_of(cs),
                  !.ax_collections[s.click_marker] = [x |-> cs, y |-> cylinder_diam]],
        ball_diam, cylinder_diam, cs, seventy_percent_of(cs))

\* lines 219-236: when a marker exists, recompute it at its cylinder diameter
update_marker_at(s, ball_diam, cylinder_diam) ==
    update_marker_to(s, ball_diam, cylinder_diam, critical_speed(ball_diam, cylinder_diam))

\* variant: a slider change leaves the marker, readout and 70% line alone
update_marker_skip(s, ball_diam) == s

update_marker(s, ball_diam) ==
    IF s.click_marker # None
    THEN update_marker_at(s, ball_diam, s.ax_collections[s.click_marker].y)
    ELSE s

\* lines 238-242: the x limit follows the new curve
update_xlim(s, ball_diam) ==
    [s EXCEPT !.ax_xlim = xlim_of_curve(ball_diam)]

update_with(s, ball_diam, new_critical_speeds) ==
    update_xlim(update_marker(update_curve(s, ball_diam, new_critical_speeds), ball_diam),
                ball_diam)

update(s, val) == update_with(s, s.slider_val, critical_speeds_for(s.slider_val))

\* Slider.set_val: store the value, then run the on_changed callback
slider_set_val(s, val) == update([s EXCEPT !.slider_val = val], val)

\* Slider.reset: set_val(valinit) when the value differs from it
slider_reset(s) == IF s.slider_val # valinit THEN slider_set_val(s, valinit) ELSE s

\* variant: reset leaves the marker on the chart
reset_marker_keep(s) == s

\* lines 260-263
reset_marker(s) ==
    IF s.click_marker # None
    THEN [s EXCEPT !.ax_collections = RemoveArtist(@, s.click_marker),
                   !.click_marker = None]
    ELSE s

\* lines 265-267
reset_text(s) ==
    IF s.click_text # None
    THEN [s EXCEPT !.ax_texts = RemoveArtist(@, s.click_text),
                   !.click_text = None]
    ELSE s

\* lines 269-273
reset_line(s) ==
    [s EXCEPT !.seventy_percent_line = 0,
              !.click_result_text = instruction_text]

reset(s) == reset_line(reset_text(reset_marker(slider_reset(s))))

----------------------------------------------------------------------------
(* The interactive chart *)

\* a dispatched event: its name, the axes under the mouse, and what the chart
\* held when it arrived (the slider off its initial value, a marker present)
Dispatch(name, inaxes) ==
    [name |-> name, inaxes |-> inaxes,
     slider_moved |-> slider_val # valinit, had_marker |-> click_marker # None]

NoCall == [b |-> 0, d |-> 0, ret |-> 0, done |-> FALSE]
NoArtists == [i \in {} |-> 0]

InitChart ==
    /\ slider_val = valinit
    /\ line_xdata = critical_speeds_for(initial_ball_diam)
    /\ line_label = fmt1_cm(initial_ball_diam)
    /\ ax_xlim = xlim_of_curve(initial_ball_diam)
    /\ seventy_percent_line = 0
    /\ ax_collections = NoArtists
    /\ ax_texts = NoArtists
    /\ click_result_text = instruction_text
    /\ click_marker = None
    /\ click_text = None
    /\ event = Dispatch("none", "none")

Init ==
    /\ InitChart
    /\ fn_call = NoCall
    /\ fn_prev = NoCall

\* a mouse press anywhere in the figure: button_press_event -> on_click
Click ==
    \E inaxes \in Axes : \E ydata \in ClickYs(inaxes) :
        /\ Becomes(on_click(Cur, inaxes, ydata))
        /\ event' = Dispatch("button_press_event", inaxes)
        /\ UNCHANGED fnVars

\* the slider is moved to another of its steps: Slider.set_val -> update
SliderChanged ==
    \E val \in SliderVals \ {slider_val} :
        /\ Becomes(slider_set_val(Cur, val))
        /\ event' = Dispatch("changed", "ax_ball")
        /\ UNCHANGED fnVars

\* the reset button is pressed: on_clicked -> reset
ResetClicked ==
    /\ Becomes(reset(Cur))
    /\ event' = Dispatch("clicked", "resetax")
    /\ UNCHANGED fnVars

Next == Click \/ SliderChanged \/ ResetClicked

Spec == Init /\ [][Next]_vars

----------------------------------------------------------------------------
(* critical_speed called directly, once and then once more with one        *)
(* argument changed                                                        *)

FnSmallStep == Cm(1, 2)
FnLargeStep == Cm(5, 1)
FnDiams ==
    LET grid == {k * FnSmallStep : k \in 1..FnMaxSmall}
                  \cup {k * FnLargeStep : k \in 1..FnMaxLarge}
    IN  grid \cup {x + 1 : x \in grid}

NewCall(b, d) == [b |-> b, d |-> d, ret |-> 0, done |-> FALSE]

InitFn ==
    /\ InitChart
    /\ \E b \in FnDiams : \E d \in FnDiams : fn_call = NewCall(b, d)
    /\ fn_prev = NoCall

\* the pending call returns
FnReturn ==
    /\ ~fn_call.done
    /\ fn_call' = [fn_call EXCEPT !.ret = critical_speed(fn_call.b, fn_call.d),
                                  !.done = TRUE]
    /\ UNCHANGED <<fn_prev, uiVars, event>>

\* a second call with another cylinder diameter
FnVaryCylinder ==
    /\ fn_call.done /\ ~fn_prev.done
    /\ \E d \in FnDiams \ {fn_call.d} : fn_call' = NewCall(fn_call.b, d)
    /\ fn_prev' = fn_call
    /\ UNCHANGED <<uiVars, event>>

\* a second call with another ball diameter
FnVaryBall ==
    /\ fn_call.done /\ ~fn_prev.done
    /\ \E b \in FnDiams \ {fn_call.b} : fn_call' = NewCall(b, fn_call.d)
    /\ fn_prev' = fn_call
    /\ UNCHANGED <<uiVars, event>>

NextFn == FnReturn \/ FnVaryCylinder \/ FnVaryBall

SpecFn == InitFn /\ [][NextFn]_vars

----------------------------------------------------------------------------
(* Properties of critical_speed, checked under SpecFn *)

\* C1: for every ball diameter b and cylinder diameter d with b >= d, the
\* boundary b = d included, critical_speed(b, d) returns exactly 0: it neither
\* divides by zero nor takes the square root of a negative number.
C1_DegenerateReturnsZero ==
    (fn_call.done /\ fn_call.b >= fn_call.d) => fn_call.ret = 0

C1_Witness == fn_call.done /\ fn_call.b = fn_call.d /\ fn_call.ret = 0

\* C2: for b < d the returned speed is strictly positive, so 0 is returned
\* if and only if the geometry is degenerate (b >= d).
C2_PositiveIffValid ==
    fn_call.done =>
        /\ (fn_call.b < fn_call.d => fn_call.ret > 0)
        /\ (fn_call.ret = 0 <=> fn_call.b >= fn_call.d)

C2_Witness ==
    fn_call.done /\ fn_call.b < fn_call.d /\ fn_call.d = fn_call.b + 1 /\ fn_call.ret > 0

\* two calls have returned, of the same ball diameter
SameBall == fn_prev.done /\ fn_call.done /\ fn_prev.b = fn_call.b
\* two calls have returned, of the same cylinder diameter
SameCylinder == fn_prev.done /\ fn_call.done /\ fn_prev.d = fn_call.d

\* C3: with the ball diameter b fixed, the speed strictly decreases as the
\* cylinder diameter grows: b < d1 < d2 implies
\* critical_speed(b, d1) > critical_speed(b, d2), in whichever order the two
\* calls are made.
C3_DecreasesWithCylinder ==
    SameBall =>
        /\ (fn_call.b < fn_prev.d /\ fn_prev.d < fn_call.d => fn_prev.ret > fn_call.ret)
        /\ (fn_call.b < fn_call.d /\ fn_call.d < fn_prev.d => fn_call.ret > fn_prev.ret)

\* the two largest cylinders of the grid, one length unit apart
C3_Witness ==
    /\ SameBall
    /\ fn_call.b < fn_prev.d
    /\ fn_prev.d = FnMaxLarge * FnLargeStep
    /\ fn_call.d = fn_prev.d + 1
    /\ fn_prev.ret > fn_call.ret

\* C4 as stated: critical_speed(1.5, 20), rounded to one decimal place, is 76.6.
C4_Is76_6 ==
    (fn_call.done /\ fn_call.b = Cm(15, 10) /\ fn_call.d = Cm(20, 1))
        => fmt1_rpm(fn_call.ret) = 766

\* C4, amended: critical_speed(1.5, 20), rounded to one decimal place, is
\* 98.3 RPM, and 70% of it is 68.8 RPM.
C4_Is98_3 ==
    (fn_call.done /\ fn_call.b = Cm(15, 10) /\ fn_call.d = Cm(20, 1))
        => /\ fmt1_rpm(fn_call.ret) = 983
           /\ fmt1_rpm(seventy_percent_of(fn_call.ret)) = 688

C4_Witness ==
    fn_call.done /\ fn_call.b = Cm(15, 10) /\ fn_call.d = Cm(20, 1) /\ fn_call.ret > 0

\* C5 as stated: larger balls require lower critical speeds: with the cylinder
\* diameter d fixed, b1 < b2 < d implies
\* critical_speed(b2, d) < critical_speed(b1, d).
C5_LargerBallsLowerSpeed ==
    SameCylinder =>
        /\ (fn_prev.b < fn_call.b /\ fn_call.b < fn_call.d => fn_call.ret < fn_prev.ret)
        /\ (fn_call.b < fn_prev.b /\ fn_prev.b < fn_call.d => fn_prev.ret < fn_call.ret)

----------------------------------------------------------------------------
(* Properties of the chart, checked under Spec *)

\* C6: whenever a click marker exists, at cylinder diameter y, then with b the
\* slider's value the marker's x is critical_speed(b, y), the 70% line is at
\* 0.7 times that, and the readout shows y, b, that speed and that 70% value;
\* whenever no marker exists, the 70% line is at x = 0.
C6_MarkerFollowsSlider ==
    IF click_marker # None
    THEN LET m  == ax_collections[click_marker]
             cs == critical_speed(slider_val, m.y)
         IN  /\ m.x = cs
             /\ seventy_percent_line = seventy_percent_of(cs)
             /\ click_text # None
             /\ ax_texts[click_text] =
                  result_text(m.y, slider_val, cs, seventy_percent_of(cs))
    ELSE seventy_percent_line = 0

\* the slider was moved while a marker was on the chart
C6_Witness ==
    /\ event.name = "changed" /\ event.had_marker
    /\ click_marker # None
    /\ ax_collections[click_marker].x > 0

\* C7: after the reset button is pressed in any reachable state, the slider is
\* at 1.5, click_marker and click_text are None, the 70% line is at x = 0 and
\* the curve is the one of ball diameter 1.5.
C7_ResetRestores ==
    event.name = "clicked" =>
        /\ slider_val = Cm(15, 10)
        /\ click_marker = None
        /\ click_text = None
        /\ seventy_percent_line = 0
        /\ \A k \in DOMAIN cylinder_diams :
              line_xdata[k] = critical_speed(Cm(15, 10), cylinder_diams[k])

\* reset arrived with the slider moved and a marker present: update ran
\* inside reset while the marker was still there
C7_Witness ==
    /\ event.name = "clicked" /\ event.slider_moved /\ event.had_marker
    /\ click_marker = None

\* C8: the curve's x values are critical_speed(b, d) for the slider's value b
\* and each d of cylinder_diams (100 points from 5 to 50 cm), and b lies in the
\* slider's range 0.1 to 5.0 cm.
C8_CurveIsCurrent ==
    /\ slider_val \in SliderVals
    /\ Cm(1, 10) <= slider_val /\ slider_val <= Cm(5, 1)
    /\ DOMAIN line_xdata = 1..100
    /\ cylinder_diams[1] = Cm(5, 1) /\ cylinder_diams[100] = Cm(50, 1)
    /\ \A k \in 1..100 : line_xdata[k] = critical_speed(slider_val, cylinder_diams[k])

\* the slider was moved to its largest value, where the curve starts at 0
C8_Witness ==
    /\ event.name = "changed" /\ slider_val = Cm(5, 1)
    /\ line_xdata[1] = 0 /\ line_xdata[2] > 0

\* C9: click_marker and click_text are both None or both set, and the chart
\* holds at most one marker and one readout made by on_click: the ones the
\* two handles name.
C9_HandlesPaired ==
    /\ (click_marker = None) <=> (click_text = None)
    /\ DOMAIN ax_collections = (IF click_marker = None THEN {} ELSE {click_marker})
    /\ DOMAIN ax_texts = (IF click_text = None THEN {} ELSE {click_text})

\* a click in ax replaced an earlier marker
C9_Witness ==
    /\ event.name = "button_press_event" /\ event.inaxes = "ax" /\ event.had_marker
    /\ click_marker # None /\ click_text # None

\* C10: a mouse press outside the main axes (outside all axes, or in the info
\* panel, the slider or the reset button axes) leaves click_marker,
\* click_text, the 70% line, the curve and the rest of the chart unchanged.
C10_ClickOutsideIgnored ==
    [][(event'.name = "button_press_event" /\ event'.inaxes # "ax")
          => UNCHANGED uiVars]_vars

\* a press outside the main axes arrived while a marker was on the chart
C10_Witness ==
    /\ event.name = "button_press_event" /\ event.inaxes = "ax_info"
    /\ event.had_marker /\ click_marker # None

====
